---- MODULE Spec2Model ----
(***************************************************************************)
(* PDF signing server: the PdfSigner service (src/services/pdfSigner.js)   *)
(* and the express application that owns it (server.js): start-up and      *)
(* identity loading, the two signing routes with their files in the        *)
(* uploads directory, the certificate-info route and the health route.     *)
(*                                                                         *)
(* Javascript runs one callback at a time.  A handler runs without         *)
(* interruption up to an `await` on library work that yields to the event  *)
(* loop (PDFDocument.load, pdfDoc.save, SignPdf.sign), to a stream         *)
(* (multer's disk storage, res.download) or to a timer (setTimeout); the   *)
(* continuations that follow a settled promise run in the same microtask   *)
(* drain.  One action of the model is one such uninterrupted run.          *)
(***************************************************************************)
EXTENDS Integers, Sequences, FiniteSets, TLC

(***************************************************************************)
(* Bounds of the model.                                                    *)
(***************************************************************************)
MaxNow == 1          \* Date.now() takes the values 0..MaxNow
MaxCertChanges == 1  \* times another process changes the certificate file
MaxReq == 2          \* requests the server receives

(***************************************************************************)
(* Javascript values.                                                      *)
(***************************************************************************)
Undefined == "<undefined>"
Null == "<null>"
Falsy(v) == v \in {Undefined, Null, ""}
\* a || b
Or(a, b) == IF Falsy(a) THEN b ELSE a
\* destructuring default: { a = b }
Default(a, b) == IF a = Undefined THEN b ELSE a

(***************************************************************************)
(* Documents.  A buffer is a sequence of bytes; a signed document is the    *)
(* bytes of the original followed by its signature field.                  *)
(***************************************************************************)
PdfHeader == <<"%", "P", "D", "F">>
BufA == PdfHeader \o <<"a">>
BufB == PdfHeader \o <<"b">>
BufEncrypted == PdfHeader \o <<"E">>
BufShort == <<"%", "P", "D">>
BufText == <<"h", "e", "l", "l", "o">>
Buffers == {BufA, BufB, BufEncrypted, BufShort, BufText}
NoBuffer == <<>>

Names == {"doc.pdf"}

(***************************************************************************)
(* The certificate file certs/signing-cert.p12 and the environment.        *)
(***************************************************************************)
CertPath == "certs/signing-cert.p12"
CertFiles ==
  { [state |-> "ok", bytes |-> "P12-A", mtime |-> 1],
    [state |-> "ok", bytes |-> "P12-B", mtime |-> 2],
    [state |-> "unreadable", bytes |-> "P12-A", mtime |-> 1],
    [state |-> "missing", bytes |-> "", mtime |-> 0] }
EnvPassphrases == {Undefined, "hunter2"}

\* the passphrase each PKCS#12 container was exported with
Unlocks(certificate, passphrase) ==
  \/ certificate = "P12-A" /\ passphrase = "password"
  \/ certificate = "P12-B" /\ passphrase = "hunter2"


(***************************************************************************)
(* PdfSigner: the pure parts.                                              *)
(***************************************************************************)
\* isPdfValid looking at the first byte only
isPdfValid_FirstByte(buffer) ==
  IF Len(buffer) < 1 THEN FALSE ELSE buffer[1] = "%"

\* PdfSigner.isPdfValid
isPdfValid(buffer) ==
  IF Len(buffer) < 4 THEN FALSE
  ELSE IF SubSeq(buffer, 1, 4) # PdfHeader THEN FALSE
  ELSE TRUE

\* PDFDocument.load(pdfBuffer, ...) resolves; it rejects an encrypted document
PDFLoadOk(buffer) == ~(Len(buffer) >= 5 /\ buffer[5] = "E")

SignatureLength == 8192

\* the defaults applied with ?? (to undefined and null only) instead of ||
PlaceholderFields_Nullish(signatureOptions) ==
  [reason |-> IF signatureOptions.reason \in {Undefined, Null}
                THEN "Document signed by server" ELSE signatureOptions.reason,
   location |-> IF signatureOptions.location \in {Undefined, Null}
                  THEN "Server" ELSE signatureOptions.location,
   contactInfo |-> IF signatureOptions.contact \in {Undefined, Null}
                     THEN "N/A" ELSE signatureOptions.contact,
   name |-> "PDF Signing Server",
   signatureLength |-> SignatureLength]

\* the arguments signPdfBuffer gives pdflibAddPlaceholder
PlaceholderFields(signatureOptions) ==
  [reason |-> Or(signatureOptions.reason, "Document signed by server"),
   location |-> Or(signatureOptions.location, "Server"),
   contactInfo |-> Or(signatureOptions.contact, "N/A"),
   name |-> "PDF Signing Server",
   signatureLength |-> SignatureLength]

\* pdflibAddPlaceholder and pdfDoc.save: the document with its signature field
\* and the reserved /Contents
AddPlaceholder(buffer, f) ==
  buffer \o <<"/Sig", f.reason, f.location, f.contactInfo, f.name, "/Contents<0>">>

\* signPdfLib.sign: the reserved /Contents filled with the signature container
SignPlaceholder(bytes) ==
  SubSeq(bytes, 1, Len(bytes) - 1) \o <<"/Contents<CMS>">>

\* what a client expects back for the document it sent
SignedVersion(buffer, f) == SignPlaceholder(AddPlaceholder(buffer, f))

\* signedPdf.toString('base64') and Buffer.from(pdf, 'base64')
Base64Encode(bytes) == <<"base64:">> \o bytes
Base64Decode(text) ==
  IF text # <<>> /\ Head(text) = "base64:" THEN Tail(text) ELSE <<>>

\* the options of a request, as the query string or the JSON body gives them
OptionValues == {Undefined, "", "custom"}
Options == [reason : OptionValues, location : OptionValues, contact : OptionValues]
NoOptions == [reason |-> Undefined, location |-> Undefined, contact |-> Undefined]
OptionChoices ==
  {NoOptions, [reason |-> "custom", location |-> "", contact |-> Undefined]}

\* const { reason = 'Document signed by server', location = '', contact = '' } = req.query
SignQueryOptions(query) ==
  [reason |-> Default(query.reason, "Document signed by server"),
   location |-> Default(query.location, ""),
   contact |-> Default(query.contact, "")]

\* const { pdf, reason = '', location = '', contact = '' } = req.body
Base64BodyOptions(body) ==
  [reason |-> Default(body.reason, ""),
   location |-> Default(body.location, ""),
   contact |-> Default(body.contact, "")]

\* getCertificateInfo spreading the whole signer into its result
getCertificateInfo_Leaky(signer) ==
  ("message" :> "Certificate is loaded and ready for signing")
    @@ signer.certificateInfo
    @@ ("certificate" :> signer.certificate)

\* PdfSigner.getCertificateInfo
getCertificateInfo(signer) ==
  ("message" :> "Certificate is loaded and ready for signing")
    @@ signer.certificateInfo

(***************************************************************************)
(* Files of the uploads directory.                                         *)
(***************************************************************************)
NoPath == [prefix |-> "", t |-> -1, rest |-> <<>>]
\* `${Date.now()}-${file.originalname}`
UploadPath(t, name) == [prefix |-> "", t |-> t, rest |-> <<"-", name>>]
\* `signed-${Date.now()}-${req.file.originalname}`
SignedUploadPath(t, name) == [prefix |-> "signed-", t |-> t, rest |-> <<"-", name>>]
\* `temp-${Date.now()}.pdf`
TempPath(t) == [prefix |-> "temp-", t |-> t, rest |-> <<".pdf">>]
\* `signed-${Date.now()}.pdf`
SignedTempPath(t) == [prefix |-> "signed-", t |-> t, rest |-> <<".pdf">>]

\* fs.writeFileSync and fs.unlinkSync
WriteFile(fs, path, bytes) == (path :> bytes) @@ fs
Unlink(fs, path) == [p \in DOMAIN fs \ {path} |-> fs[p]]

(***************************************************************************)
(* Errors.  Every error of the service is a plain `Error`; its message is  *)
(* the message of its cause behind the prefixes of the catch blocks it     *)
(* went through.                                                           *)
(***************************************************************************)
InvalidPdfMessage == <<"Invalid or corrupted PDF file">>
NoEntryMessage == <<"ENOENT: no such file or directory, open">>
EncryptedMessage == <<"Input document to PDFDocument.load is encrypted">>
PassphraseMessage == <<"PKCS#12 MAC could not be verified. Invalid password?">>

Error(message) == [name |-> "Error", message |-> message]
NoError == [name |-> "", message |-> <<>>]
\* catch of signPdfBuffer: throw new Error(`Failed to sign PDF buffer: ${error.message}`)
SignPdfBufferCatch(error) == Error(<<"Failed to sign PDF buffer: ">> \o error.message)
\* catch of signPdf: throw new Error(`Failed to sign PDF: ${error.message}`)
SignPdfCatch(error) == Error(<<"Failed to sign PDF: ">> \o error.message)

VARIABLES
  pc,           \* position of the start-up code of server.js
  exitCode,     \* argument of process.exit, -1 while the process runs
  certFile,     \* the certificate file on disk
  certChanges,  \* how often the certificate file has been changed
  envPass,      \* process.env.CERT_PASSPHRASE
  pdfSigner,    \* the PdfSigner object; assigned says `let pdfSigner` holds it
  loads,        \* how often loadCertificate has run
  now,          \* Date.now()
  files,        \* the uploads directory: path -> bytes
  req           \* the requests and their handlers

vars == <<pc, exitCode, certFile, certChanges, envPass, pdfSigner, loads,
          now, files, req>>
startup == <<pc, exitCode, certFile, certChanges, envPass, pdfSigner, loads>>

Requests == 1..MaxReq

NoSigner ==
  [assigned |-> FALSE, certPath |-> Undefined, passphrase |-> Undefined,
   certificate |-> Null, certificateInfo |-> [loaded |-> FALSE]]

NoFields ==
  [reason |-> Undefined, location |-> Undefined, contactInfo |-> Undefined,
   name |-> Undefined, signatureLength |-> 0]

\* a request nobody has sent yet
NoRequest ==
  [route |-> "", pc |-> "idle",
   name |-> Undefined,        \* req.file.originalname
   input |-> NoBuffer,        \* the document the client sends
   given |-> NoOptions,       \* reason, location, contact of req.query or req.body
   options |-> NoOptions,     \* signatureOptions given to signPdf
   inputPath |-> NoPath, outputPath |-> NoPath,
   pdfBuffer |-> NoBuffer,    \* what signPdf read from inputPath
   fields |-> NoFields,       \* what pdflibAddPlaceholder was given
   thrown |-> NoError,        \* the error signPdf rejected with
   failure |-> "",            \* what went wrong, in the terms of the design
   status |-> 0, error |-> "", details |-> <<>>,
   body |-> NoBuffer,         \* the document bytes of the response
   info |-> [loaded |-> FALSE],
   log |-> <<>>]              \* what was done on behalf of the request

Init ==
  /\ pc = "initializeSigner"
  /\ exitCode = -1
  /\ certFile \in CertFiles
  /\ certChanges = 0
  /\ envPass \in EnvPassphrases
  /\ pdfSigner = NoSigner
  /\ loads = 0
  /\ now = 0
  /\ files = << >>
  /\ req = [r \in Requests |-> NoRequest]

(***************************************************************************)
(* Another process replaces, removes or locks the certificate file while   *)
(* the server starts.  (Nothing reads the file once the server listens.)   *)
(***************************************************************************)
ChangeCertFile ==
  /\ certChanges < MaxCertChanges
  /\ pc \notin {"listening", "exited"}
  /\ \E f \in CertFiles \ {certFile} : certFile' = f
  /\ certChanges' = certChanges + 1
  /\ UNCHANGED <<pc, exitCode, envPass, pdfSigner, loads, now, files, req>>

\* the clock advances
Tick ==
  /\ pc = "listening"
  /\ now < MaxNow
  /\ now' = now + 1
  /\ UNCHANGED <<startup, files, req>>

(***************************************************************************)
(* Start-up: initializeSigner and the PdfSigner constructor.               *)
(***************************************************************************)
\* initializeSigner up to fs.existsSync(certPath)
InitializeSigner ==
  /\ pc = "initializeSigner"
  /\ IF certFile.state = "missing"
       THEN /\ pc' = "exited"
            /\ exitCode' = 1
       ELSE /\ pc' = "constructor"
            /\ UNCHANGED exitCode
  /\ UNCHANGED <<certFile, certChanges, envPass, pdfSigner, loads, now, files, req>>

\* loadCertificate whose catch logs the error and goes on
LoadCertificate_Swallow ==
  /\ pc = "constructor"
  /\ loads' = loads + 1
  /\ pdfSigner' = [NoSigner EXCEPT
       !.certPath = CertPath,
       !.passphrase = Or(envPass, "password"),
       !.certificate = IF certFile.state = "ok" THEN certFile.bytes ELSE Null]
  /\ pc' = "parseCertificateInfo"
  /\ UNCHANGED <<exitCode, certFile, certChanges, envPass, now, files, req>>

\* new PdfSigner(certPath, passphrase) up to fs.readFileSync in loadCertificate
LoadCertificate ==
  /\ pc = "constructor"
  /\ loads' = loads + 1
  /\ IF certFile.state = "ok"
       THEN /\ pdfSigner' = [NoSigner EXCEPT
                 !.certPath = CertPath,
                 !.passphrase = Or(envPass, "password"),
                 !.certificate = certFile.bytes]
            /\ pc' = "parseCertificateInfo"
            /\ UNCHANGED exitCode
       ELSE /\ pc' = "exited"
            /\ exitCode' = 1
            /\ UNCHANGED pdfSigner
  /\ UNCHANGED <<certFile, certChanges, envPass, now, files, req>>

\* PdfSigner.parseCertificateInfo
parseCertificateInfo(signer, file) ==
  IF file.state = "missing"
    THEN [loaded |-> FALSE, error |-> "ENOENT: no such file or directory, stat"]
    ELSE [loaded |-> TRUE, path |-> signer.certPath, timestamp |-> file.mtime,
          algorithm |-> "PKCS#7/CMS (Detached)", hasPrivateKey |-> TRUE]

\* parseCertificateInfo, the return of the constructor and the assignment
ParseCertificateInfo ==
  /\ pc = "parseCertificateInfo"
  /\ pdfSigner' = [pdfSigner EXCEPT
       !.assigned = TRUE,
       !.certificateInfo = parseCertificateInfo(pdfSigner, certFile)]
  /\ pc' = "listen"
  /\ UNCHANGED <<exitCode, certFile, certChanges, envPass, loads, now, files, req>>

\* app.listen(PORT, ...)
Listen ==
  /\ pc = "listen"
  /\ pc' = "listening"
  /\ UNCHANGED <<exitCode, certFile, certChanges, envPass, pdfSigner, loads,
                 now, files, req>>

(***************************************************************************)
(* Responses.                                                              *)
(***************************************************************************)
\* res.status(400).json({ error })
BadRequest(rq, error) ==
  [rq EXCEPT !.pc = "done", !.status = 400, !.error = error,
             !.log = Append(@, "respond")]

\* the catch of a signing route: res.status(500).json({ error, details })
SignCatch(rq, error, failure) ==
  [rq EXCEPT !.pc = "done", !.thrown = error, !.failure = failure,
             !.status = 500, !.error = "Failed to sign PDF",
             !.details = error.message,
             !.log = Append(@, "respond")]

(***************************************************************************)
(* PdfSigner.signPdf, from its call to the first await of signPdfBuffer    *)
(* (PDFDocument.load), or to the catch of the route when it throws.        *)
(***************************************************************************)
signPdf(rq, fs) ==
  IF rq.inputPath \notin DOMAIN fs
    THEN SignCatch(rq, SignPdfCatch(Error(NoEntryMessage)), "Unreadable")
  ELSE IF ~isPdfValid(fs[rq.inputPath])
    THEN SignCatch([rq EXCEPT !.pdfBuffer = fs[rq.inputPath],
                              !.log = Append(@, "read input")],
                   SignPdfCatch(Error(InvalidPdfMessage)), "InvalidDocument")
  ELSE [rq EXCEPT !.pc = "load", !.pdfBuffer = fs[rq.inputPath],
                  !.log = @ \o <<"read input", "load">>]

(***************************************************************************)
(* POST /api/sign                                                          *)
(***************************************************************************)
\* upload.single('pdf'): multer stores the file part of the request
MulterStore(r) ==
  /\ pc = "listening"
  /\ req[r].pc = "idle"
  /\ \E name \in Names \cup {Undefined} :
     \E buffer \in (IF name = Undefined THEN {NoBuffer} ELSE Buffers) :
       IF name = Undefined
         THEN /\ req' = [req EXCEPT ![r] =
                   [@ EXCEPT !.route = "sign", !.pc = "handler"]]
              /\ UNCHANGED files
         ELSE /\ req' = [req EXCEPT ![r] =
                   [@ EXCEPT !.route = "sign", !.pc = "handler", !.name = name,
                             !.input = buffer,
                             !.inputPath = UploadPath(now, name),
                             !.log = Append(@, "write input")]]
              /\ files' = WriteFile(files, UploadPath(now, name), buffer)
  /\ UNCHANGED <<startup, now>>

\* file parts the fileFilter of multer turns away
OtherFiles == {[mimetype |-> "text/plain", originalname |-> "notes.txt"]}

\* fileFilter: file.mimetype === 'application/pdf' || file.originalname.endsWith('.pdf')
\* (Names are the names that end with .pdf)
fileFilter(file) ==
  file.mimetype = "application/pdf" \/ file.originalname \in Names

\* the error handling middleware: res.status(500).json({ error: err.message })
ErrorMiddleware(rq, error) ==
  [rq EXCEPT !.pc = "done", !.status = 500,
             !.error = IF error.message = <<>> THEN "Internal server error"
                       ELSE error.message[1],
             !.log = Append(@, "respond")]

\* upload.single('pdf') when the fileFilter fails: nothing is stored, the
\* handler of the route is not called
MulterReject(r) ==
  /\ pc = "listening"
  /\ req[r].pc = "idle"
  /\ \E file \in OtherFiles :
       /\ ~fileFilter(file)
       /\ req' = [req EXCEPT ![r] =
            ErrorMiddleware([@ EXCEPT !.route = "sign", !.name = file.originalname],
                            Error(<<"Only PDF files are allowed">>))]
  /\ UNCHANGED <<startup, now, files>>

\* the handler of /api/sign up to the first await inside signPdf
SignHandler(r, queries) ==
  /\ req[r].route = "sign"
  /\ req[r].pc = "handler"
  /\ IF req[r].name = Undefined
       THEN req' = [req EXCEPT ![r] = BadRequest(@, "No PDF file provided")]
       ELSE \E query \in queries :
              req' = [req EXCEPT ![r] =
                signPdf([@ EXCEPT !.given = query,
                                  !.options = SignQueryOptions(query),
                                  !.outputPath = SignedUploadPath(now, req[r].name)],
                        files)]
  /\ UNCHANGED <<startup, now, files>>

(***************************************************************************)
(* POST /api/sign/base64                                                   *)
(***************************************************************************)
\* the handler of /api/sign/base64 up to the first await inside signPdf
Base64Handler(r, bodies) ==
  /\ pc = "listening"
  /\ req[r].pc = "idle"
  /\ \E pdf \in {Base64Encode(b) : b \in Buffers} \cup {<<>>} :
     \E body \in bodies :
     \E t \in {now, now + 1} \cap (0..MaxNow) :
       IF pdf = <<>>
         THEN /\ req' = [req EXCEPT ![r] =
                   BadRequest([@ EXCEPT !.route = "base64"], "No PDF data provided")]
              /\ UNCHANGED <<files, now>>
         ELSE /\ files' = WriteFile(files, TempPath(now), Base64Decode(pdf))
              /\ now' = t
              /\ req' = [req EXCEPT ![r] =
                   signPdf([@ EXCEPT !.route = "base64",
                                     !.input = Base64Decode(pdf),
                                     !.given = body,
                                     !.options = Base64BodyOptions(body),
                                     !.inputPath = TempPath(now),
                                     !.outputPath = SignedTempPath(t),
                                     !.log = Append(@, "write input")],
                           files')]
  /\ UNCHANGED startup

(***************************************************************************)
(* PdfSigner.signPdfBuffer after its awaits.                               *)
(***************************************************************************)
\* PDFDocument.load settles; pdflibAddPlaceholder; pdfDoc.save is called
LoadDone(r) ==
  /\ req[r].pc = "load"
  /\ req' = [req EXCEPT ![r] =
       IF ~PDFLoadOk(@.pdfBuffer)
         THEN SignCatch(@, SignPdfCatch(SignPdfBufferCatch(Error(EncryptedMessage))),
                        "InvalidDocument")
         ELSE [@ EXCEPT !.pc = "save",
                        !.fields = PlaceholderFields(req[r].options),
                        !.log = @ \o <<"placeholder", "save">>]]
  /\ UNCHANGED <<startup, now, files>>

\* signPdf writing the bytes with the placeholder to outputPath before signing
SaveDone_WritesPlaceholder(r) ==
  /\ req[r].pc = "save"
  /\ files' = WriteFile(files, req[r].outputPath,
                        AddPlaceholder(req[r].pdfBuffer, req[r].fields))
  /\ req' = [req EXCEPT ![r] =
       [@ EXCEPT !.pc = "sign", !.log = @ \o <<"write output", "sign">>]]
  /\ UNCHANGED <<startup, now>>

\* pdfDoc.save settles; new P12Signer; signPdfLib.sign is called
SaveDone(r) ==
  /\ req[r].pc = "save"
  /\ req' = [req EXCEPT ![r] = [@ EXCEPT !.pc = "sign", !.log = Append(@, "sign")]]
  /\ UNCHANGED <<startup, now, files>>

\* the bytes signPdfBuffer resolves with
signPdfBuffer(rq) == SignPlaceholder(AddPlaceholder(rq.pdfBuffer, rq.fields))

\* signPdfBuffer whose catch returns the bytes with the empty placeholder
SignDone_ReturnsUnsigned(r) ==
  /\ req[r].pc = "sign"
  /\ LET bytes == IF Unlocks(pdfSigner.certificate, pdfSigner.passphrase)
                    THEN signPdfBuffer(req[r])
                    ELSE AddPlaceholder(req[r].pdfBuffer, req[r].fields)
     IN /\ files' = WriteFile(files, req[r].outputPath, bytes)
        /\ req' = [req EXCEPT ![r] =
             IF req[r].route = "sign"
               THEN [@ EXCEPT !.pc = "download",
                              !.log = Append(@, "write output")]
               ELSE [@ EXCEPT !.pc = "cleanup", !.status = 200,
                              !.body = Base64Encode(bytes),
                              !.log = @ \o <<"write output", "read output", "respond">>]]
  /\ UNCHANGED <<startup, now>>

\* signPdfLib.sign settles; signPdf writes the output; the route answers
SignDone(r) ==
  /\ req[r].pc = "sign"
  /\ IF ~Unlocks(pdfSigner.certificate, pdfSigner.passphrase)
       THEN /\ req' = [req EXCEPT ![r] =
                 SignCatch(@, SignPdfCatch(SignPdfBufferCatch(Error(PassphraseMessage))),
                           "SigningFailure")]
            /\ UNCHANGED files
       ELSE /\ files' = WriteFile(files, req[r].outputPath, signPdfBuffer(req[r]))
            /\ req' = [req EXCEPT ![r] =
                 IF @.route = "sign"
                   THEN [@ EXCEPT !.pc = "download",
                                  !.log = Append(@, "write output")]
                   ELSE [@ EXCEPT !.pc = "cleanup", !.status = 200,
                                  !.body = Base64Encode(files'[req[r].outputPath]),
                                  !.log = @ \o <<"write output", "read output", "respond">>]]
  /\ UNCHANGED <<startup, now>>

\* res.download(outputPath, ...) streams the file; its callback sets the timer
Download(r) ==
  /\ req[r].pc = "download"
  /\ req' = [req EXCEPT ![r] =
       IF req[r].outputPath \in DOMAIN files
         THEN [@ EXCEPT !.pc = "cleanup", !.status = 200,
                        !.body = files[req[r].outputPath],
                        !.log = @ \o <<"read output", "respond">>]
         ELSE [@ EXCEPT !.pc = "cleanup", !.log = Append(@, "download error")]]
  /\ UNCHANGED <<startup, now, files>>

\* the callback of setTimeout
Cleanup(r) ==
  /\ req[r].pc = "cleanup"
  /\ files' =
       IF req[r].inputPath \notin DOMAIN files
         THEN files   \* unlinkSync(inputPath) throws
         ELSE Unlink(Unlink(files, req[r].inputPath), req[r].outputPath)
  /\ req' = [req EXCEPT ![r] = [@ EXCEPT !.pc = "done", !.log = Append(@, "cleanup")]]
  /\ UNCHANGED <<startup, now>>

(***************************************************************************)
(* GET /api/cert/info and GET /health                                      *)
(***************************************************************************)
\* the route refreshing certificateInfo from the file before it answers
CertInfo_Reparse(r) ==
  /\ pc = "listening"
  /\ req[r].pc = "idle"
  /\ pdfSigner' = [pdfSigner EXCEPT
       !.certificateInfo = parseCertificateInfo(pdfSigner, certFile)]
  /\ req' = [req EXCEPT ![r] =
       [@ EXCEPT !.route = "info", !.pc = "done", !.status = 200,
                 !.info = getCertificateInfo(pdfSigner'),
                 !.log = Append(@, "respond")]]
  /\ UNCHANGED <<pc, exitCode, certFile, certChanges, envPass, loads, now, files>>

CertInfo(r) ==
  /\ pc = "listening"
  /\ req[r].pc = "idle"
  /\ req' = [req EXCEPT ![r] =
       [@ EXCEPT !.route = "info", !.pc = "done", !.status = 200,
                 !.info = getCertificateInfo(pdfSigner),
                 !.log = Append(@, "respond")]]
  /\ UNCHANGED <<startup, now, files>>

Health(r) ==
  /\ pc = "listening"
  /\ req[r].pc = "idle"
  /\ req' = [req EXCEPT ![r] =
       [@ EXCEPT !.route = "health", !.pc = "done", !.status = 200,
                 !.info = [status |-> "ok", message |-> "PDF Signing Server is running"],
                 !.log = Append(@, "respond")]]
  /\ UNCHANGED <<startup, now, files>>

Next ==
  \/ ChangeCertFile
  \/ Tick
  \/ InitializeSigner
  \/ LoadCertificate
  \/ ParseCertificateInfo
  \/ Listen
  \/ \E r \in Requests : MulterStore(r)
  \/ \E r \in Requests : MulterReject(r)
  \/ \E r \in Requests : SignHandler(r, OptionChoices)
  \/ \E r \in Requests : Base64Handler(r, OptionChoices)
  \/ \E r \in Requests : LoadDone(r)
  \/ \E r \in Requests : SaveDone(r)
  \/ \E r \in Requests : SignDone(r)
  \/ \E r \in Requests : Download(r)
  \/ \E r \in Requests : Cleanup(r)
  \/ \E r \in Requests : CertInfo(r)
  \/ \E r \in Requests : Health(r)

Spec == Init /\ [][Next]_vars

(***************************************************************************)
(* One signing request at a time, with every combination of options.       *)
(***************************************************************************)
NextOptions ==
  \/ ChangeCertFile
  \/ Tick
  \/ InitializeSigner
  \/ LoadCertificate
  \/ ParseCertificateInfo
  \/ Listen
  \/ MulterStore(1)
  \/ MulterReject(1)
  \/ SignHandler(1, Options)
  \/ Base64Handler(1, Options)
  \/ LoadDone(1)
  \/ SaveDone(1)
  \/ SignDone(1)
  \/ Download(1)
  \/ Cleanup(1)

SpecOptions == Init /\ [][NextOptions]_vars

(***************************************************************************)
(* Properties.                                                             *)
(***************************************************************************)
Range(seq) == {seq[i] : i \in DOMAIN seq}
Signing(r) == req[r].route \in {"sign", "base64"}
\* the buffer begins with the four bytes %PDF
StartsWithMagic(buffer) ==
  /\ Len(buffer) >= 4
  /\ buffer[1] = "%" /\ buffer[2] = "P" /\ buffer[3] = "D" /\ buffer[4] = "F"
\* the last entry of a document: its /Contents
Contents(bytes) == IF bytes = <<>> THEN "" ELSE bytes[Len(bytes)]
\* the response a client expects for the document and the options it sent
Expected(r) ==
  LET signed == SignedVersion(req[r].input, PlaceholderFields(req[r].options))
  IN IF req[r].route = "base64" THEN Base64Encode(signed) ELSE signed
OutputPaths == {p \in DOMAIN files : p.prefix = "signed-"}

\* C1: concurrent signing requests do not interfere: a caller that is sent a
\* document is sent the signed version of its own document, no download fails
\* because the file is gone, and no request finds its stored input gone.
C1_NoInterference ==
  \A r \in Requests :
    Signing(r) =>
      /\ req[r].status = 200 => req[r].body = Expected(r)
      /\ "download error" \notin Range(req[r].log)
      /\ req[r].failure # "Unreadable"

\* C2: a caller receives a document only if preparation and signing both
\* succeeded for its request, and that document is a signed one; a request
\* that failed wrote no output file and is answered 500 without a document.
C2_AtomicOutput ==
  \A r \in Requests :
    Signing(r) =>
      /\ req[r].body # NoBuffer =>
           /\ req[r].status = 200
           /\ req[r].failure = ""
           /\ "write output" \in Range(req[r].log)
           /\ Contents(req[r].body) = "/Contents<CMS>"
      /\ req[r].failure # "" =>
           /\ req[r].status = 500
           /\ req[r].body = NoBuffer
           /\ "write output" \notin Range(req[r].log)
      /\ req[r].pc \in {"load", "save", "sign"} =>
           "write output" \notin Range(req[r].log)

C2_Witness ==
  \E r \in Requests :
    /\ Signing(r) /\ req[r].pc = "done"
    /\ req[r].failure = "InvalidDocument" /\ "placeholder" \notin Range(req[r].log)
    /\ "load" \in Range(req[r].log)

\* C3: the server listens, and handles requests, only after the constructor
\* of PdfSigner has returned with the certificate read, which happens once; a
\* certificate file that is missing or cannot be read ends the process with
\* exit code 1, and an exited process never listens.
C3_LoadedBeforeListening ==
  /\ [](/\ pc = "listening" =>
             /\ pdfSigner.assigned
             /\ pdfSigner.certificate \in {f.bytes : f \in {g \in CertFiles : g.state = "ok"}}
             /\ loads = 1
        /\ (\E r \in Requests : req[r].pc # "idle") => pc = "listening"
        /\ pc = "exited" => exitCode = 1 /\ ~pdfSigner.assigned
        /\ pc # "exited" => exitCode = -1)
  /\ [][/\ (pc = "initializeSigner" /\ certFile.state = "missing" /\ pc' # pc)
             => pc' = "exited"
        /\ (pc = "constructor" /\ certFile.state # "ok" /\ pc' # pc)
             => pc' = "exited"
        /\ pc = "exited" => pc' = "exited"]_vars

C3_Witness ==
  /\ pc = "listening"
  /\ \A r \in Requests : Signing(r) /\ req[r].pc = "done"

C5_WrongPassphrase ==
  (pdfSigner.assigned /\ ~Unlocks(pdfSigner.certificate, pdfSigner.passphrase)) =>
    /\ OutputPaths = {}
    /\ \A r \in Requests :
         Signing(r) =>
           /\ req[r].status # 200 /\ req[r].body = NoBuffer
           /\ "write output" \notin Range(req[r].log)
           /\ req[r].pc \in {"download", "cleanup"} => FALSE
           /\ (req[r].pc = "done" /\ "sign" \in Range(req[r].log)) =>
                /\ req[r].failure = "SigningFailure"
                /\ req[r].status = 500
                /\ req[r].details = <<"Failed to sign PDF: ", "Failed to sign PDF buffer: ">>
                                      \o PassphraseMessage

C5_Witness ==
  /\ ~Unlocks(pdfSigner.certificate, pdfSigner.passphrase)
  /\ \E r \in Requests :
       req[r].pc = "done" /\ req[r].failure = "SigningFailure"

\* C6: the signature field receives the caller's value of reason, location
\* and contact when it is not empty and the fixed default when it is absent
\* or empty; the signer name is always 'PDF Signing Server'; no request fails
\* because of its options.
C6_MetadataDefaults ==
  \A r \in Requests :
    /\ req[r].fields # NoFields =>
         /\ req[r].fields.reason =
              (IF req[r].given.reason \in {Undefined, ""}
                 THEN "Document signed by server" ELSE req[r].given.reason)
         /\ req[r].fields.location =
              (IF req[r].given.location \in {Undefined, ""}
                 THEN "Server" ELSE req[r].given.location)
         /\ req[r].fields.contactInfo =
              (IF req[r].given.contact \in {Undefined, ""}
                 THEN "N/A" ELSE req[r].given.contact)
         /\ req[r].fields.name = "PDF Signing Server"
    /\ (Signing(r) /\ req[r].pc \in {"download", "cleanup", "done"}
          /\ req[r].status # 400
          /\ StartsWithMagic(req[r].pdfBuffer) /\ PDFLoadOk(req[r].pdfBuffer)
          /\ Unlocks(pdfSigner.certificate, pdfSigner.passphrase)) =>
         /\ req[r].failure = ""
         /\ req[r].fields # NoFields

C6_Witness ==
  \E r \in Requests :
    /\ req[r].route = "sign" /\ req[r].status = 200
    /\ req[r].given = [reason |-> "", location |-> Undefined, contact |-> "custom"]

\* C7 as claimed: failures of different kinds reach the caller as different
\* kinds: two requests that failed for different reasons differ in the name
\* of the error thrown, in the status or in the error of the response.
C7_DistinctKinds ==
  \A r1, r2 \in Requests :
    (req[r1].failure # "" /\ req[r2].failure # ""
       /\ req[r1].failure # req[r2].failure) =>
      <<req[r1].thrown.name, req[r1].status, req[r1].error>>
        # <<req[r2].thrown.name, req[r2].status, req[r2].error>>

\* C8: once the constructor has returned, no step changes the signer
\* (certificate, passphrase, path, certificateInfo), reassigns pdfSigner or
\* loads the certificate again.
C8_SignerImmutable ==
  [][pdfSigner.assigned => (pdfSigner' = pdfSigner /\ loads' = loads)]_vars

C8_Witness ==
  /\ pdfSigner.assigned
  /\ certFile.bytes # pdfSigner.certificate
  /\ \E r1, r2 \in Requests :
       /\ req[r1].route = "info" /\ req[r1].pc = "done"
       /\ req[r2].route = "base64" /\ req[r2].pc = "done" /\ req[r2].status = 200

\* C9: the answer of /api/cert/info holds the loaded flag and metadata only,
\* none of it the certificate bytes or the passphrase, and is the same for
\* any other certificate bytes and passphrase; no response of any route
\* holds the certificate bytes or the passphrase.
InfoKeys == {"loaded", "path", "timestamp", "algorithm", "hasPrivateKey", "error", "message"}
Secrets == {pdfSigner.certificate, pdfSigner.passphrase}
C9_NoKeyMaterial ==
  \A r \in Requests :
    /\ (req[r].route = "info" /\ req[r].pc = "done") =>
         /\ DOMAIN req[r].info \subseteq InfoKeys
         /\ "loaded" \in DOMAIN req[r].info
         /\ \A k \in DOMAIN req[r].info \cap {"path", "algorithm", "error", "message"} :
              req[r].info[k] \notin Secrets
         /\ \A c \in {f.bytes : f \in CertFiles}, p \in {"password", "hunter2", ""} :
              getCertificateInfo([pdfSigner EXCEPT !.certificate = c, !.passphrase = p])
                = req[r].info
    /\ req[r].status # 0 =>
         (Range(req[r].details) \cup Range(req[r].body) \cup {req[r].error})
           \cap Secrets = {}

C9_Witness ==
  \E r \in Requests :
    /\ req[r].route = "info" /\ req[r].pc = "done"
    /\ req[r].info.loaded
    /\ ~Unlocks(pdfSigner.certificate, pdfSigner.passphrase)

\* C12: once every request has been answered and every cleanup timer has
\* run, no file a request stored in the uploads directory is left; and no
\* request loses a file it still needs: no download finds its output gone
\* and no signPdf finds its stored input gone.
C12_TempFilesDeleted ==
  /\ (\A r \in Requests : req[r].pc \in {"idle", "done"}) => DOMAIN files = {}
  /\ \A r \in Requests :
       Signing(r) =>
         /\ "download error" \notin Range(req[r].log)
         /\ ~(req[r].failure = "Unreadable" /\ "write input" \in Range(req[r].log))

\* the responses sent to a request
Responses(r) == Cardinality({i \in DOMAIN req[r].log : req[r].log[i] = "respond"})
\* signPdf was called for the request
SignerInvoked(r) == "read input" \in Range(req[r].log) \/ req[r].failure # ""
\* the request carries no file part, or no pdf in its body
NoInput(r) ==
  \/ req[r].route = "sign" /\ req[r].name = Undefined
  \/ req[r].route = "base64" /\ req[r].input = NoBuffer

\* C13: a signing request gets exactly one response, never two: 400 without
\* a call of the signer when it carries no PDF, the signed document when
\* signPdf resolved, 500 'Failed to sign PDF' when signPdf rejected.
C13_OneResponse ==
  \A r \in Requests :
    Signing(r) =>
      /\ Responses(r) <= 1
      /\ req[r].pc \in {"cleanup", "done"} => Responses(r) = 1
      /\ (NoInput(r) /\ req[r].pc = "done") => req[r].status = 400
      /\ req[r].status = 400 => (NoInput(r) /\ ~SignerInvoked(r))
      /\ ("write output" \in Range(req[r].log) /\ req[r].pc \in {"cleanup", "done"}) =>
           /\ req[r].status = 200
           /\ Contents(req[r].body) = "/Contents<CMS>"
      /\ req[r].failure # "" =>
           /\ req[r].status = 500
           /\ req[r].error = "Failed to sign PDF"

====
